---- MODULE Spec2Model ----
(***************************************************************************)
(* Model of scripts/versioning/bump_order.py (dependency-aware bump order) *)
(* and scripts/versioning/tag.py (tag formatter) of couchbase/tools-common.*)
(*                                                                         *)
(* Three specifications share the variables:                               *)
(*   Spec    - a run of bump_order.py's main() over a workspace whose      *)
(*             go.mod files were written beforehand;                       *)
(*   SpecFn  - bump_dependencies() called directly on an arbitrary list of *)
(*             the modules (any permutation), and called a second time;    *)
(*   SpecTag - a run of tag.py over a repository's tags and go.mod.        *)
(*                                                                         *)
(* Text is modelled as sequences of one-character strings.  A SubModule    *)
(* object is a record [name, bumped]; a Python list of objects is a        *)
(* sequence of such records, and a slice of a list is kept as positions    *)
(* into the list so that it shares the objects' flags as Python does.      *)
(***************************************************************************)
EXTENDS Integers, Sequences, FiniteSets, TLC

\* ------------------------------------------------------------ bounds
\* Total number of sibling-dependency lines over all go.mod files.
MaxLines == 3

\* The workspace's modules, in the order `find` lists them.  The code only
\* compares names for equality, so any other listing order is this one up
\* to a renaming of the modules.
Discovered == <<"A", "B", "C">>

Mods == {Discovered[i] : i \in DOMAIN Discovered}

\* A name that is no directory of the workspace (an unknown module argument,
\* or a dependency line naming something that is not a discovered module).
Unknown == "X"

Names == Mods \cup {Unknown}

VARIABLES
    gomod,        \* bump_order: module -> the sibling names of its go.mod lines
    argv,         \* sys.argv[1:]
    pc,           \* position of the run
    all_modules,  \* the list handed to bump_dependencies (list of objects)
    target,       \* the `module` object's name
    idx,          \* loop index of bump_dependencies (0-based, as in Python)
    previous,     \* positions (1-based) of the objects last passed as `previous`
    current,      \* position of the object last passed as `current` (0: none)
    pass,         \* how many times bump_dependencies has been entered
    firstPass,    \* the list as the first pass left it
    stdout,       \* printed lines
    error,        \* "" or the failure that ended the run
    tags,         \* tag: output lines of `git tag`
    head,         \* tag: first line of <module>/go.mod
    last,         \* tag: the string `last`
    version,      \* tag: the parsed/bumped version <<major, minor, patch>>
    proc,         \* tag: proc.returncode of the head|grep pipeline
    module,       \* tag: sys.argv[1]
    mode,         \* tag: sys.argv[2]
    stages        \* tag: the stages of the pipeline executed so far, in order

vars == <<gomod, argv, pc, all_modules, target, idx, previous, current, pass,
          firstPass, stdout, error, tags, head, last, version, proc, module, mode,
          stages>>

bumpVars == <<gomod, all_modules, target, idx, previous, current, pass, firstPass>>
tagVars == <<tags, head, last, version, proc, module, mode, stages>>

\* ------------------------------------------------------------ helpers
RECURSIVE SumLens(_, _)
SumLens(f, S) ==
    IF S = {} THEN 0
    ELSE LET m == CHOOSE x \in S : TRUE IN Len(f[m]) + SumLens(f, S \ {m})

Range(s) == {s[i] : i \in DOMAIN s}

\* list.index(x) by __eq__ on the name; 0-based, -1 when absent
IndexOfName(list, name) ==
    IF \E i \in DOMAIN list : list[i].name = name
    THEN (CHOOSE i \in DOMAIN list :
            list[i].name = name /\ \A j \in 1..(i-1) : list[j].name # name) - 1
    ELSE -1

\* ------------------------------------------------------------ SubModule
SubModule(name) == [name |-> name, bumped |-> FALSE]

bump_as_toggle(obj) == [obj EXCEPT !.bumped = ~@]

bump(obj) == [obj EXCEPT !.bumped = TRUE]

\* SubModule.dependencies: one fresh object per sibling line of the manifest.
\* Only discovered modules have a manifest to read.
dependencies(g, obj) == [i \in DOMAIN g[obj.name] |-> SubModule(g[obj.name][i])]

\* `mod in dependencies`: list membership by __eq__ (the name)
InList(obj, list) == \E i \in DOMAIN list : list[i].name = obj.name

\* ------------------------------------------------------------ graphlib
NODE_OUT == -1
NODE_DONE == -2

NodeInfo(node) == [node |-> node, npredecessors |-> 0, successors |-> <<>>]

\* _node2info is an insertion-ordered dict keyed by the node's hash/eq (name):
\* a sequence of node infos, the first object seen under a name kept as .node
Slot(n2i, node) == CHOOSE i \in DOMAIN n2i : n2i[i].node.name = node.name

get_nodeinfo(n2i, node) ==
    IF \E i \in DOMAIN n2i : n2i[i].node.name = node.name
    THEN n2i
    ELSE Append(n2i, NodeInfo(node))

RECURSIVE AddPredecessors(_, _, _)
AddPredecessors(n2i, node, preds) ==
    IF preds = <<>> THEN n2i
    ELSE LET a == get_nodeinfo(n2i, Head(preds))
             j == Slot(a, Head(preds))
         IN AddPredecessors([a EXCEPT ![j].successors = Append(@, node)],
                            node, Tail(preds))

add(n2i, node, preds) ==
    LET a == get_nodeinfo(n2i, node)
        i == Slot(a, node)
    IN AddPredecessors([a EXCEPT ![i].npredecessors = @ + Len(preds)], node, preds)

\* _find_cycle: depth-first search along successors; a node met again while it
\* is on the current stack closes a cycle.  Returns [seen, found].
RECURSIVE Visit(_, _, _, _)
RECURSIVE VisitAll(_, _, _, _)
Visit(n2i, node, onstack, seen) ==
    IF node.name \in seen
    THEN [seen |-> seen, found |-> node.name \in onstack]
    ELSE VisitAll(n2i, n2i[Slot(n2i, node)].successors,
                  onstack \cup {node.name}, seen \cup {node.name})

VisitAll(n2i, succs, onstack, seen) ==
    IF succs = <<>> THEN [seen |-> seen, found |-> FALSE]
    ELSE LET r == Visit(n2i, Head(succs), onstack, seen)
         IN IF r.found THEN r ELSE VisitAll(n2i, Tail(succs), onstack, r.seen)

RECURSIVE FindCycleFrom(_, _, _)
FindCycleFrom(n2i, k, seen) ==
    IF k > Len(n2i) THEN FALSE
    ELSE LET r == Visit(n2i, n2i[k].node, {}, seen)
         IN IF r.found THEN TRUE ELSE FindCycleFrom(n2i, k + 1, r.seen)

find_cycle_as_none(n2i) == FALSE

find_cycle(n2i) == FindCycleFrom(n2i, 1, {})

\* done(*nodes): mark each node done and release the successors whose count
\* of predecessors falls to zero.  st = [n2i, ready]
RECURSIVE Release(_, _)
Release(st, succs) ==
    IF succs = <<>> THEN st
    ELSE LET j == Slot(st.n2i, Head(succs))
             n == st.n2i[j].npredecessors - 1
             st2 == [n2i |-> [st.n2i EXCEPT ![j].npredecessors = n],
                     ready |-> IF n = 0 THEN Append(st.ready, Head(succs))
                               ELSE st.ready]
         IN Release(st2, Tail(succs))

RECURSIVE done(_, _)
done(st, nodes) ==
    IF nodes = <<>> THEN st
    ELSE LET i == Slot(st.n2i, Head(nodes))
             marked == [st EXCEPT !.n2i[i].npredecessors = NODE_DONE]
         IN done(Release(marked, st.n2i[i].successors), Tail(nodes))

\* get_ready: hand out the ready nodes, marking each as passed out
RECURSIVE MarkOut(_, _)
MarkOut(n2i, nodes) ==
    IF nodes = <<>> THEN n2i
    ELSE MarkOut([n2i EXCEPT ![Slot(n2i, Head(nodes))].npredecessors = NODE_OUT],
                 Tail(nodes))

\* the while loop of static_order
RECURSIVE Drain(_, _, _)
Drain(n2i, ready, out) ==
    IF ready = <<>> THEN out
    ELSE LET st == done([n2i |-> MarkOut(n2i, ready), ready |-> <<>>], ready)
         IN Drain(st.n2i, st.ready, out \o ready)

ReadyNodes(n2i) ==
    LET keep == {i \in DOMAIN n2i : n2i[i].npredecessors = 0}
        F[k \in 0..Len(n2i)] ==
            IF k = 0 THEN <<>>
            ELSE IF k \in keep THEN Append(F[k-1], n2i[k].node) ELSE F[k-1]
    IN F[Len(n2i)]

\* prepare() then the loop; [ok |-> FALSE] is CycleError raised by prepare()
static_order(n2i) ==
    IF find_cycle(n2i)
    THEN [ok |-> FALSE, list |-> <<>>]
    ELSE [ok |-> TRUE, list |-> Drain(n2i, ReadyNodes(n2i), <<>>)]

RECURSIVE AddAll(_, _, _)
AddAll(g, n2i, mods) ==
    IF mods = <<>> THEN n2i
    ELSE AddAll(g, add(n2i, Head(mods), dependencies(g, Head(mods))), Tail(mods))

RECURSIVE AddAllNoDeps(_, _, _)
AddAllNoDeps(g, n2i, mods) ==
    IF mods = <<>> THEN n2i
    ELSE AddAllNoDeps(g, add(n2i, Head(mods), <<>>), Tail(mods))

order_as_unsorted(g, mods) == static_order(AddAllNoDeps(g, <<>>, mods))

order(g, mods) == static_order(AddAll(g, <<>>, mods))

\* ------------------------------------------------------------ bump_order.py
Min(a, b) == IF a < b THEN a ELSE b

\* potentials = all_modules[all_modules.index(module):], as positions (1-based)
\* into all_modules: the slice shares the list's objects
potentials_as_after_target(list, name) ==
    [k \in 1..(Len(list) - IndexOfName(list, name) - 1) |->
        IndexOfName(list, name) + 1 + k]

potentials(list, name) ==
    [k \in 1..(Len(list) - IndexOfName(list, name)) |-> IndexOfName(list, name) + k]

\* potentials[:idx]
Prefix(s, n) == SubSeq(s, 1, Min(n, Len(s)))

\* bump_dependency(previous, current): the list after the call
bump_dependency_as_unconditional(g, list, prev, cur) ==
    [list EXCEPT ![cur] = bump(@)]

bump_dependency(g, list, prev, cur) ==
    IF \E k \in DOMAIN prev :
          /\ InList(list[prev[k]], dependencies(g, list[cur]))
          /\ list[prev[k]].bumped
    THEN [list EXCEPT ![cur] = bump(@)]
    ELSE list

\* mods = [module] + [SubModule(mod) for mod in all_modules if mod != target],
\* module being the target's object, already bumped
RECURSIVE Others(_, _)
Others(found, name) ==
    IF found = <<>> THEN <<>>
    ELSE IF Head(found) # name
         THEN <<SubModule(Head(found))>> \o Others(Tail(found), name)
         ELSE Others(Tail(found), name)

MainMods_as_in_find_order(found, name) ==
    [i \in DOMAIN found |->
        IF found[i] = name THEN bump(SubModule(name)) ELSE SubModule(found[i])]

MainMods(found, name) == <<bump(SubModule(name))>> \o Others(found, name)

\* filtered = [mod for mod in bumped if mod.bumped]
RECURSIVE Filtered(_)
Filtered(list) ==
    IF list = <<>> THEN <<>>
    ELSE IF Head(list).bumped THEN <<Head(list)>> \o Filtered(Tail(list))
         ELSE Filtered(Tail(list))

\* ", ".join(names), as text
RECURSIVE Join(_)
Join(names) ==
    IF names = <<>> THEN <<>>
    ELSE IF Len(names) = 1 THEN <<names[1]>>
         ELSE <<names[1], ",", " ">> \o Join(Tail(names))

NamesOf(list) == [i \in DOMAIN list |-> list[i].name]

\* ------------------------------------------------------------ actions
\* The workspace before a run: a sibling-dependency line is written to a
\* module's go.mod.
WriteManifestLine(m, d) ==
    /\ pc = "setup"
    /\ SumLens(gomod, Mods) < MaxLines
    /\ gomod' = [gomod EXCEPT ![m] = Append(@, d)]
    /\ UNCHANGED <<argv, pc, all_modules, target, idx, previous, current, pass,
                   firstPass, stdout, error, tagVars>>

\* main(), lines 77-91: argument count, discovery, known module
Main_Validate(args) ==
    /\ pc = "setup"
    /\ argv' = args
    /\ IF Len(args) # 1
       THEN /\ pc' = "exit" /\ error' = "ArgumentCount" /\ UNCHANGED target
       ELSE IF args[1] \notin Range(Discovered)
       THEN /\ pc' = "exit" /\ error' = "UnknownModule" /\ UNCHANGED target
       ELSE /\ pc' = "validated" /\ target' = args[1] /\ UNCHANGED error
    /\ UNCHANGED <<gomod, all_modules, idx, previous, current, pass, firstPass,
                   stdout, tagVars>>

\* main(), lines 94-106: build the objects, order them, enter bump_dependencies
Main_Order ==
    /\ pc = "validated"
    /\ LET r == order(gomod, MainMods(Discovered, target))
       IN IF r.ok
          THEN /\ all_modules' = r.list
               /\ pc' = "bump"
               /\ idx' = 0
               /\ pass' = 1
               /\ UNCHANGED error
          ELSE /\ pc' = "exit"
               /\ error' = "CycleError"
               /\ UNCHANGED <<all_modules, idx, pass>>
    /\ UNCHANGED <<gomod, argv, target, previous, current, firstPass, stdout, tagVars>>

\* one iteration of the loop of bump_dependencies (lines 60-61, 66-72)
BumpDependency ==
    /\ pc = "bump"
    /\ idx < Len(all_modules)
    /\ LET prev == Prefix(potentials(all_modules, target), idx)
           cur == idx + 1
       IN /\ previous' = prev
          /\ current' = cur
          /\ IF all_modules[cur].name \in Mods
             THEN /\ all_modules' = bump_dependency(gomod, all_modules, prev, cur)
                  /\ idx' = idx + 1
                  /\ UNCHANGED <<pc, error>>
             ELSE \* dependencies() opens a go.mod that does not exist
                  /\ pc' = "exit"
                  /\ error' = "ManifestRead"
                  /\ UNCHANGED <<all_modules, idx>>
    /\ UNCHANGED <<gomod, argv, target, pass, firstPass, stdout, tagVars>>

\* bump_dependencies returns; main(), lines 109-112: filter and print
Main_Print ==
    /\ pc = "bump"
    /\ idx = Len(all_modules)
    /\ stdout' = Append(stdout, Join(NamesOf(Filtered(all_modules))))
    /\ pc' = "exit"
    /\ UNCHANGED <<gomod, argv, all_modules, target, idx, previous, current, pass,
                   firstPass, error, tagVars>>

Init ==
    /\ gomod = [m \in Mods |-> <<>>]
    /\ argv = <<>>
    /\ pc = "setup"
    /\ all_modules = <<>>
    /\ target = ""
    /\ idx = 0
    /\ previous = <<>>
    /\ current = 0
    /\ pass = 0
    /\ firstPass = <<>>
    /\ stdout = <<>>
    /\ error = ""
    /\ tags = {}
    /\ head = <<>>
    /\ last = <<>>
    /\ version = <<>>
    /\ proc = 0
    /\ module = ""
    /\ mode = ""
    /\ stages = <<>>

Args == {<<>>} \cup {<<a>> : a \in Names} \cup {<<a, a>> : a \in Mods}

Next ==
    \/ \E m \in Mods, d \in Names : WriteManifestLine(m, d)
    \/ \E args \in Args : Main_Validate(args)
    \/ Main_Order
    \/ BumpDependency
    \/ Main_Print

Spec == Init /\ [][Next]_vars

\* ------------------------------------------------------------ SpecFn
\* bump_dependencies(module, all_modules) called on any listing of the
\* modules with only the target's object bumped, then called once more on
\* the list it returned.
Perms == {p \in [1..Len(Discovered) -> Mods] : \A m \in Mods : \E i \in DOMAIN p : p[i] = m}

Fn_Call(p, t) ==
    /\ pc = "setup"
    /\ all_modules' = [i \in DOMAIN p |->
                          IF p[i] = t THEN bump(SubModule(t)) ELSE SubModule(p[i])]
    /\ target' = t
    /\ idx' = 0
    /\ pass' = 1
    /\ pc' = "bump"
    /\ UNCHANGED <<gomod, argv, previous, current, firstPass, stdout, error, tagVars>>

Fn_Return ==
    /\ pc = "bump"
    /\ idx = Len(all_modules)
    /\ pc' = "returned"
    /\ firstPass' = IF pass = 1 THEN all_modules ELSE firstPass
    /\ UNCHANGED <<gomod, argv, all_modules, target, idx, previous, current, pass,
                   stdout, error, tagVars>>

Fn_CallAgain ==
    /\ pc = "returned"
    /\ pass = 1
    /\ pass' = 2
    /\ idx' = 0
    /\ pc' = "bump"
    /\ UNCHANGED <<gomod, argv, all_modules, target, previous, current, firstPass,
                   stdout, error, tagVars>>

NextFn ==
    \/ \E m \in Mods, d \in Names : WriteManifestLine(m, d)
    \/ \E p \in Perms, t \in Mods : Fn_Call(p, t)
    \/ BumpDependency
    \/ Fn_Return
    \/ Fn_CallAgain

SpecFn == Init /\ [][NextFn]_vars

\* ------------------------------------------------------------ text
\* The characters that occur, in byte order (`sort` compares bytes in the
\* C locale)
Alphabet == <<" ", ".", "/", "0", "1", "2", "3", "4", "5", "6", "7", "8", "9",
              "A", "B", "C", "X", "d", "e", "l", "m", "o", "u", "v">>

Code(c) == CHOOSE i \in DOMAIN Alphabet : Alphabet[i] = c

DigitChars == <<"0", "1", "2", "3", "4", "5", "6", "7", "8", "9">>

IsDigit(c) == \E i \in DOMAIN DigitChars : DigitChars[i] = c

DigitValue(c) == (CHOOSE i \in DOMAIN DigitChars : DigitChars[i] = c) - 1

\* str(int)
RECURSIVE Digits(_)
Digits(n) ==
    IF n < 10 THEN <<DigitChars[n + 1]>>
    ELSE Append(Digits(n \div 10), DigitChars[(n % 10) + 1])

\* int(text) for a text of digits
RECURSIVE IntOf(_)
IntOf(t) ==
    IF t = <<>> THEN 0
    ELSE IntOf(SubSeq(t, 1, Len(t) - 1)) * 10 + DigitValue(t[Len(t)])

\* str.split(".")
RECURSIVE SplitDots(_, _, _)
SplitDots(t, part, parts) ==
    IF t = <<>> THEN Append(parts, part)
    ELSE IF Head(t) = "." THEN SplitDots(Tail(t), <<>>, Append(parts, part))
         ELSE SplitDots(Tail(t), Append(part, Head(t)), parts)

\* str.split(".", 1)[0]
RECURSIVE BeforeFirstDot(_)
BeforeFirstDot(t) ==
    IF t = <<>> \/ Head(t) = "." THEN <<>>
    ELSE <<Head(t)>> \o BeforeFirstDot(Tail(t))

\* grep PATTERN (a pattern without metacharacters): the line contains it
Contains(line, pat) ==
    \E i \in 1..(Len(line) - Len(pat) + 1) : SubSeq(line, i, i + Len(pat) - 1) = pat

\* tr -d SET
RECURSIVE DeleteChars(_, _)
DeleteChars(line, set) ==
    IF line = <<>> THEN <<>>
    ELSE IF Head(line) \in set THEN DeleteChars(Tail(line), set)
         ELSE <<Head(line)>> \o DeleteChars(Tail(line), set)

\* byte-wise string order of sort
RECURSIVE LexLess(_, _)
LexLess(a, b) ==
    IF b = <<>> THEN FALSE
    ELSE IF a = <<>> THEN TRUE
    ELSE IF Head(a) = Head(b) THEN LexLess(Tail(a), Tail(b))
    ELSE Code(Head(a)) < Code(Head(b))

\* ------------------------------------------------------------ semver
\* VersionInfo.parse on major.minor.patch text (no prerelease or build part
\* occurs in the tags considered): <<>> stands for ValueError
NumericIdentifier(t) ==
    /\ t # <<>>
    /\ \A i \in DOMAIN t : IsDigit(t[i])
    /\ (Len(t) > 1 => t[1] # "0")

parse(t) ==
    LET parts == SplitDots(t, <<>>, <<>>)
    IN IF Len(parts) = 3 /\ \A i \in 1..3 : NumericIdentifier(parts[i])
       THEN <<IntOf(parts[1]), IntOf(parts[2]), IntOf(parts[3])>>
       ELSE <<>>

\* str(version)
Str(v) == Digits(v[1]) \o <<".">> \o Digits(v[2]) \o <<".">> \o Digits(v[3])

bump_major(v) == <<v[1] + 1, 0, 0>>

bump_minor_as_keep_patch(v) == <<v[1], v[2] + 1, v[3]>>

bump_minor(v) == <<v[1], v[2] + 1, 0>>

bump_patch(v) == <<v[1], v[2], v[3] + 1>>

\* ------------------------------------------------------------ tag.py
modes == <<"major", "minor", "patch">>

\* A tag of a module: <module>/v<version>
TagLine(m, v) == <<m, "/", "v">> \o Str(v)

\* git tag | grep {module} | tr -d {module}/v | sort | tail -1
LastTag(lines, m) ==
    LET kept == {l \in lines : Contains(l, <<m>>)}
        stripped == {DeleteChars(l, {m, "/", "v"}) : l \in kept}
    IN IF stripped = {} THEN <<>>
       ELSE CHOOSE x \in stripped : \A y \in stripped : y = x \/ LexLess(y, x)

\* the module line of go.mod: "module <m>" with, from major version 2 on,
\* the suffix /v<major> (0 stands for no suffix)
ModuleLine(m, declared) ==
    <<"m", "o", "d", "u", "l", "e", " ", m>>
    \o (IF declared = 0 THEN <<>> ELSE <<"/", "v">> \o Digits(declared))

\* head -1 {module}/go.mod | grep -q /v'<major>': the exit status
HeadGrep(line, v) ==
    IF Contains(line, <<"/", "v">> \o BeforeFirstDot(Str(v))) THEN 0 ELSE 1

\* the versions that are tagged, and the declared majors of a module line
TagMajors == {0, 1, 9, 10}
TagMinors == {0, 4}
TagPatches == {2, 9}
TagVersions == {<<a, b, c>> : a \in TagMajors, b \in TagMinors, c \in TagPatches}
OtherVersions == {<<2, 0, 0>>, <<10, 4, 9>>}
TagLines == {TagLine("A", v) : v \in TagVersions} \cup {TagLine("B", v) : v \in OtherVersions}
DeclaredMajors == {0, 2, 3, 10, 20}

\* Tags in the repository when the tool runs
MaxTags == 2

GitTag(line) ==
    /\ pc = "setup"
    /\ Cardinality(tags) < MaxTags
    /\ line \notin tags
    /\ tags' = tags \cup {line}
    /\ UNCHANGED <<argv, pc, stdout, error, head, last, version, proc, module,
                   mode, stages, bumpVars>>

Exit(err) ==
    /\ pc' = "exit"
    /\ error' = err

\* lines 9-10
Tag_CheckArgs(args) ==
    /\ pc = "setup"
    /\ argv' = args
    /\ stages' = Append(stages, "args")
    /\ IF Len(args) # 2 THEN Exit("ArgumentCount")
       ELSE pc' = "module" /\ UNCHANGED error
    /\ UNCHANGED <<stdout, tags, head, last, version, proc, module, mode, bumpVars>>

\* lines 13-23
Tag_CheckModule ==
    /\ pc = "module"
    /\ module' = argv[1]
    /\ stages' = Append(stages, "module")
    /\ IF argv[1] \notin Range(Discovered) THEN Exit("UnknownModule")
       ELSE pc' = "mode" /\ UNCHANGED error
    /\ UNCHANGED <<argv, stdout, tags, head, last, version, proc, mode, bumpVars>>

\* lines 26-31
Tag_CheckMode_as_fall_through ==
    /\ pc = "mode"
    /\ mode' = argv[2]
    /\ stages' = Append(stages, "mode")
    /\ pc' = "last"
    /\ UNCHANGED <<argv, stdout, error, tags, head, last, version, proc, module, bumpVars>>

Tag_CheckMode ==
    /\ pc = "mode"
    /\ mode' = argv[2]
    /\ stages' = Append(stages, "mode")
    /\ IF argv[2] \notin Range(modes) THEN Exit("InvalidMode")
       ELSE pc' = "last" /\ UNCHANGED error
    /\ UNCHANGED <<argv, stdout, tags, head, last, version, proc, module, bumpVars>>

\* lines 34-38
Tag_Last ==
    /\ pc = "last"
    /\ last' = LastTag(tags, module)
    /\ stages' = Append(stages, "last")
    /\ pc' = "parse"
    /\ UNCHANGED <<argv, stdout, error, tags, head, version, proc, module, mode, bumpVars>>

\* line 41
Tag_Parse ==
    /\ pc = "parse"
    /\ stages' = Append(stages, "parse")
    /\ IF parse(last) = <<>>
       THEN Exit("ParseError") /\ UNCHANGED version
       ELSE version' = parse(last) /\ pc' = "bumpversion" /\ UNCHANGED error
    /\ UNCHANGED <<argv, stdout, tags, head, last, proc, module, mode, bumpVars>>

\* lines 44-49
Tag_Bump ==
    /\ pc = "bumpversion"
    /\ stages' = Append(stages, "bump")
    /\ version' = IF mode = "major" THEN bump_major(version)
                  ELSE IF mode = "minor" THEN bump_minor(version)
                  ELSE IF mode = "patch" THEN bump_patch(version)
                  ELSE version
    /\ pc' = "check"
    /\ UNCHANGED <<argv, stdout, error, tags, head, last, proc, module, mode, bumpVars>>

\* lines 52-58; the first line of the module's go.mod is read here
Tag_CrossCheck(declared) ==
    /\ pc = "check"
    /\ stages' = Append(stages, "check")
    /\ head' = ModuleLine(module, declared)
    /\ proc' = HeadGrep(ModuleLine(module, declared), version)
    /\ IF version[1] > 1 /\ HeadGrep(ModuleLine(module, declared), version) # 0
       THEN Exit("VersionMismatch")
       ELSE pc' = "emit" /\ UNCHANGED error
    /\ UNCHANGED <<argv, stdout, tags, last, version, module, mode, bumpVars>>

\* lines 60-64
FullVersion(m, v) == <<m, "/", "v">> \o Str(v)

Tag_Emit ==
    /\ pc = "emit"
    /\ stages' = Append(stages, "emit")
    /\ stdout' = stdout \o << <<"git tag -a ">> \o FullVersion(module, version),
                             <<"git push gerrit ">> \o FullVersion(module, version)
                                 \o <<" --no-verify">> >>
    /\ pc' = "exit"
    /\ UNCHANGED <<argv, error, tags, head, last, version, proc, module, mode, bumpVars>>

TagArgs ==
    {<<>>} \cup {<<m>> : m \in {"A"}}
    \cup {<<m, x>> : m \in {"A", "B", "C", Unknown}, x \in Range(modes) \cup {"bogus"}}
    \cup {<<"A", "major", "minor">>}

NextTag ==
    \/ \E line \in TagLines : GitTag(line)
    \/ \E args \in TagArgs : Tag_CheckArgs(args)
    \/ Tag_CheckModule
    \/ Tag_CheckMode
    \/ Tag_Last
    \/ Tag_Parse
    \/ Tag_Bump
    \/ \E declared \in DeclaredMajors : Tag_CrossCheck(declared)
    \/ Tag_Emit

SpecTag == Init /\ [][NextTag]_vars

\* ------------------------------------------------------------ the dependency graph, stated apart from the code
DepSet(m) == Range(gomod[m]) \cap Mods

DepsAmongMods == \A m \in Mods : Range(gomod[m]) \subseteq Mods

RECURSIVE Closure(_)
Closure(S) ==
    LET n == S \cup UNION {DepSet(x) : x \in S}
    IN IF n = S THEN S ELSE Closure(n)

\* the modules m depends on, directly or transitively
TransDeps(m) == Closure(DepSet(m))

Cyclic == \E m \in Mods : m \in TransDeps(m)

Pos(list, name) == CHOOSE i \in DOMAIN list : list[i].name = name

Occurrences(list, name) == Cardinality({i \in DOMAIN list : list[i].name = name})

\* every dependency precedes its dependents
ValidOrder(list) ==
    /\ \A m \in Mods : Occurrences(list, m) = 1
    /\ \A m \in Mods : \A d \in DepSet(m) : Pos(list, d) < Pos(list, m)

ValidRun == Len(argv) = 1 /\ argv[1] \in Mods

Chain == gomod = [m \in Mods |-> IF m = "C" THEN <<"B">> ELSE IF m = "B" THEN <<"A">> ELSE <<>>]

\* ------------------------------------------------------------ claims
\* C1: for an acyclic graph whose dependencies are all input modules, order()
\* returns (raises nothing) a list holding every input module exactly once in
\* which each dependency stands before each of its dependents.
C1_OrderIsTopological ==
    (ValidRun /\ pc \notin {"setup", "validated"} /\ ~Cyclic /\ DepsAmongMods) =>
        /\ error = ""
        /\ Len(all_modules) = Cardinality(Mods)
        /\ ValidOrder(all_modules)

C1_Witness ==
    /\ pc = "bump" /\ idx = 0 /\ Chain /\ target = "C"
    /\ NamesOf(all_modules) = <<"A", "B", "C">>

\* C2: on a DAG and a valid topological ordering with only the target bumped,
\* one pass of bump_dependencies leaves a module bumped iff it is the target
\* or depends on it directly or transitively; nothing before the target is
\* bumped.
C2_BumpedIffDependsOnTarget ==
    (pc = "returned" /\ pass = 1 /\ ~Cyclic /\ ValidOrder(all_modules)) =>
        /\ \A i \in DOMAIN all_modules :
              all_modules[i].bumped <=>
                  (all_modules[i].name = target \/ target \in TransDeps(all_modules[i].name))
        /\ \A i \in 1..(Pos(all_modules, target) - 1) : ~all_modules[i].bumped

C2_Witness ==
    /\ pc = "returned" /\ pass = 1 /\ Chain /\ target = "B"
    /\ all_modules = <<SubModule("A"), bump(SubModule("B")), bump(SubModule("C"))>>

\* C3: a cyclic dependency graph ends the run with CycleError raised by
\* order(); no ordering, partial or otherwise, is returned or printed.
C3_CycleRaisesCycleError ==
    (ValidRun /\ pc \notin {"setup", "validated"} /\ Cyclic) =>
        /\ pc = "exit"
        /\ error = "CycleError"
        /\ all_modules = <<>>
        /\ stdout = <<>>

C3_Witness ==
    /\ pc = "exit" /\ error = "CycleError"
    /\ gomod["A"] = <<"B">> /\ gomod["B"] = <<"A">> /\ gomod["C"] = <<>>

\* C4: a successful run prints one line; it names the target (whose element
\* of the ordered list carries the flag set in main) and the bumped modules
\* in the relative order of the topological order; a target without
\* dependents gives just the target, and the chain C->B->A with target A
\* gives "A, B, C".
PrintedNames(out) == [k \in 1..((Len(out) + 2) \div 3) |-> out[3 * k - 2]]

WellJoined(out) ==
    /\ Len(out) % 3 = 1
    /\ \A i \in DOMAIN out : (i % 3 = 2 => out[i] = ",") /\ (i % 3 = 0 => out[i] = " ")

NoDependents == \A m \in Mods \ {target} : target \notin DepSet(m)

C4_PrintedList ==
    (ValidRun /\ pc = "exit" /\ error = "") =>
        /\ Len(stdout) = 1
        /\ WellJoined(stdout[1])
        /\ LET printed == PrintedNames(stdout[1])
           IN /\ \E k \in DOMAIN printed : printed[k] = target
              /\ all_modules[Pos(all_modules, target)].bumped
              /\ \A k \in DOMAIN printed :
                    /\ Occurrences(all_modules, printed[k]) = 1
                    /\ all_modules[Pos(all_modules, printed[k])].bumped
              /\ \A i \in DOMAIN all_modules :
                    all_modules[i].bumped => \E k \in DOMAIN printed : printed[k] = all_modules[i].name
              /\ \A j, k \in DOMAIN printed :
                    j < k => Pos(all_modules, printed[j]) < Pos(all_modules, printed[k])
        /\ (NoDependents => stdout[1] = <<target>>)
        /\ ((Chain /\ target = "A") => stdout[1] = <<"A", ",", " ", "B", ",", " ", "C">>)

C4_Witness ==
    /\ pc = "exit" /\ Chain /\ target = "A"
    /\ stdout = << <<"A", ",", " ", "B", ",", " ", "C">> >>

\* C5: on a topologically ordered list, a second application of
\* bump_dependencies to the list the first one returned changes no flag; and
\* a flag is only ever set: no step of either pass clears one.
C5_Idempotent ==
    [][/\ \A i \in DOMAIN all_modules :
             (i \in DOMAIN all_modules' /\ all_modules[i].bumped) => all_modules'[i].bumped
       /\ (pass = 2 /\ pass' = 2 /\ ValidOrder(all_modules)) =>
             /\ all_modules' = all_modules
             /\ all_modules = firstPass]_vars

C5_Witness ==
    /\ pc = "returned" /\ pass = 2 /\ target = "A"
    /\ gomod["C"] = <<"A", "B">> /\ gomod["B"] = <<"A">>
    /\ \A i \in DOMAIN all_modules : all_modules[i].bumped

\* C10: the `previous` collection handed to bump_dependency for the module at
\* position i holds only modules at positions before i and at or after the
\* target's position.
C10_PreviousPrecedes ==
    (current > 0) =>
        \A k \in DOMAIN previous :
            /\ previous[k] < current
            /\ previous[k] >= Pos(all_modules, target)

\* ------------------------------------------------------------ claims about tag.py
AllVersions == TagVersions \cup OtherVersions

\* numeric order of versions: major, then minor, then patch
VersionLeq(v, w) ==
    \/ v[1] < w[1]
    \/ v[1] = w[1] /\ v[2] < w[2]
    \/ v[1] = w[1] /\ v[2] = w[2] /\ v[3] <= w[3]

\* the versions the module is tagged with
TaggedVersions(m) == {v \in AllVersions : TagLine(m, v) \in tags}

Ran(stage) == \E i \in DOMAIN stages : stages[i] = stage

\* C6: the last released version is the module's greatest tag under numeric
\* comparison of major, minor and patch.
C6_LastIsNumericGreatest ==
    (Ran("last") /\ TaggedVersions(module) # {}) =>
        \E v \in TaggedVersions(module) :
            /\ \A w \in TaggedVersions(module) : VersionLeq(w, v)
            /\ last = Str(v)

\* C7: the next version is (major+1, 0, 0), (major, minor+1, 0) or
\* (major, minor, patch+1) of the parsed last version, by mode; 1.4.2 gives
\* 2.0.0, 1.5.0 and 1.4.3.
NextVersion(v, md) ==
    IF md = "major" THEN <<v[1] + 1, 0, 0>>
    ELSE IF md = "minor" THEN <<v[1], v[2] + 1, 0>>
    ELSE <<v[1], v[2], v[3] + 1>>

C7_NextVersion ==
    Ran("bump") =>
        /\ \E v \in AllVersions : last = Str(v) /\ version = NextVersion(v, mode)
        /\ (last = <<"1", ".", "4", ".", "2">> =>
               /\ mode = "major" => version = <<2, 0, 0>>
               /\ mode = "minor" => version = <<1, 5, 0>>
               /\ mode = "patch" => version = <<1, 4, 3>>)

C7_Witness ==
    /\ pc = "exit" /\ Len(stdout) = 2 /\ mode = "minor"
    /\ last = <<"1", ".", "4", ".", "2">> /\ version = <<1, 5, 0>>

\* C8: with a computed major of 2 or more the commands are printed only if
\* the major version in the import path of the manifest's first line equals
\* the computed major, and any other declared major fails with the
\* version-mismatch error and prints nothing; a computed major of at most 1
\* never raises the mismatch error.
DeclaredMajor == CHOOSE d \in DeclaredMajors : head = ModuleLine(module, d)

C8_MismatchDetected ==
    (Ran("check") /\ pc = "exit") =>
        /\ (version[1] >= 2 /\ stdout # <<>>) => DeclaredMajor = version[1]
        /\ (version[1] >= 2 /\ DeclaredMajor # version[1]) =>
              (error = "VersionMismatch" /\ stdout = <<>>)
        /\ (version[1] <= 1) => error = ""

\* C9: the stages run in the pipeline's order, each at most once; a failure
\* ends the run there; both command lines or none are printed, and only
\* after every stage succeeded; an unknown module or an invalid mode ends the
\* run before the tag list is queried or a version parsed.
Pipeline == <<"args", "module", "mode", "last", "parse", "bump", "check", "emit">>

C9_LinearPipeline ==
    /\ Len(stages) <= Len(Pipeline)
    /\ stages = SubSeq(Pipeline, 1, Len(stages))
    /\ Len(stdout) \in {0, 2}
    /\ (stdout # <<>>) =>
          /\ stages = Pipeline
          /\ error = ""
          /\ Len(argv) = 2 /\ argv[1] \in Mods /\ argv[2] \in Range(modes)
          /\ last # <<>> /\ version # <<>>
    /\ (error # "") => (pc = "exit" /\ stdout = <<>>)
    /\ (pc = "exit") => ~ENABLED NextTag
    /\ (Ran("module") /\ argv[1] \notin Mods) =>
          (pc = "exit" /\ error = "UnknownModule" /\ ~Ran("mode")
           /\ last = <<>> /\ version = <<>>)
    /\ (Ran("mode") /\ argv[2] \notin Range(modes)) =>
          (pc = "exit" /\ error = "InvalidMode" /\ ~Ran("last")
           /\ last = <<>> /\ version = <<>>)

C9_Witness ==
    /\ pc = "exit" /\ error = "InvalidMode" /\ tags # {}
    /\ stages = <<"args", "module", "mode">>

====
